---- MODULE Spec2Model ----
(***************************************************************************)
(* The GitHub skill: eight action handlers over one process-wide username  *)
(* cache.  Two renderings of the same handlers live in the repository: the *)
(* JavaScript one (src/index.js) and the TypeScript one (api module,       *)
(* src/unnamed/part_001).  The variable impl selects the rendering a       *)
(* process runs; the handlers differ in listRepos' truncation, in          *)
(* createIssue's error message and in createPullRequest's owner.           *)
(*                                                                         *)
(* A handler runs synchronously between its awaits.  Each invocation is a  *)
(* record inv[p]; its steps are Start (entry up to the first fetch),       *)
(* UserResponse (the identity fetch settles, up to the next fetch),        *)
(* OpResponse (the operation's fetch settles, up to return or throw) and   *)
(* Return (the caller takes the outcome).                                  *)
(***************************************************************************)
EXTENDS Integers, Sequences, FiniteSets, TLC

VARIABLES impl, env, cachedUser, inv, calls, lookups, firstLookup

vars == <<impl, env, cachedUser, inv, calls, lookups, firstLookup>>

----------------------------------------------------------------------------
(* Bounds of the model *)

NumProcs == 1
MaxCalls == 2
MaxRepos == 2
MaxRuns == 2
NumConcProcs == 2
MaxConcCalls == 2

(* Program constants *)

DefaultLimit == 30
DefaultActivityLimit == 10
CIPageSize == 5
ShaLen == 7

----------------------------------------------------------------------------
(* JavaScript values *)

undefined == "<undefined>"
null == "<null>"
unset == "<unset>"
\* an object's key that is not there
absent == "<absent>"

GITHUB_API == "https://api.github.com"

\* a value is truthy unless it is undefined, null or the empty string
Truthy(v) == v \notin {undefined, null, ""}

\* template-literal interpolation `${v}`
Str(v) == IF v = undefined THEN "undefined" ELSE IF v = null THEN "null" ELSE v

\* encodeURIComponent on the strings the model draws
encodeURIComponent(s) == IF s = "my claw" THEN "my%20claw" ELSE s

\* String.prototype.toLowerCase on the strings the model draws
toLowerCase(s) ==
    CASE s = "Go" -> "go"
      [] s = "GO" -> "go"
      [] s = "Rust" -> "rust"
      [] OTHER -> s

Min(a, b) == IF a < b THEN a ELSE b
Max(a, b) == IF a > b THEN a ELSE b

\* Array.prototype.slice(0, end): a negative end counts from the back
slice0(s, end) ==
    LET n == IF end < 0 THEN Max(Len(s) + end, 0) ELSE Min(end, Len(s))
    IN  SubSeq(s, 1, n)

\* String.prototype.substring(0, n), a string being the sequence of its characters
substring0(s, n) == SubSeq(s, 1, Min(n, Len(s)))

\* r.language?.toLowerCase() === args.language.toLowerCase()
languageMatches(r, language) ==
    /\ r.language \notin {null, undefined}
    /\ toLowerCase(r.language) = toLowerCase(language)

\* repos.filter(r => languageMatches(r, language))
RECURSIVE filterByLanguage(_, _)
filterByLanguage(repos, language) ==
    IF repos = <<>> THEN <<>>
    ELSE IF languageMatches(Head(repos), language)
         THEN <<Head(repos)>> \o filterByLanguage(Tail(repos), language)
         ELSE filterByLanguage(Tail(repos), language)

----------------------------------------------------------------------------
(* Inputs *)

Procs == 1..NumProcs

Impls == {"js", "ts"}

Actions == {"list_repos", "get_repo", "check_ci_status", "get_recent_activity",
            "create_issue", "create_repo", "create_pull_request", "search_repos"}

\* process.env: GITHUB_TOKEN and GITHUB_USERNAME
Envs == [GITHUB_TOKEN : {undefined, "envtok"}, GITHUB_USERNAME : {undefined, "envuser"}]

\* context.config?.github || {}
Contexts == [token : {undefined, "cfgtok"}, username : {undefined, "cfguser"}]

\* an optional numeric argument: <<>> when omitted, <<n>> when given
Limits == {<<>>, <<0>>, <<1>>}

Opt(v) == {undefined, "", v}

\* a JSON object of the request bodies' keys; absent where it has no such key
NoPayload == [title |-> absent, body |-> absent, labels |-> absent,
              head |-> absent, base |-> absent, name |-> absent,
              description |-> absent, private |-> absent, auto_init |-> absent]

\* args.extra: omitted (no key), labels only, or its own title and body
Extras == {NoPayload,
           [NoPayload EXCEPT !.labels = "bug"],
           [NoPayload EXCEPT !.title = "other", !.body = "over", !.labels = "bug"]}

NoArgs == [owner |-> undefined, repo |-> undefined, title |-> undefined,
           head |-> undefined, name |-> undefined, query |-> undefined,
           language |-> undefined, limit |-> <<>>,
           body |-> undefined, base |-> undefined, extra |-> NoPayload]

ArgsOf(a) ==
    CASE a = "list_repos" ->
           {[NoArgs EXCEPT !.language = l, !.limit = n] :
               l \in {undefined, "go", "GO"}, n \in Limits}
      [] a \in {"get_repo", "check_ci_status"} ->
           {[NoArgs EXCEPT !.owner = o, !.repo = r] :
               o \in Opt("acme"), r \in Opt("widget")}
      [] a = "get_recent_activity" ->
           {[NoArgs EXCEPT !.repo = r, !.limit = n] :
               r \in Opt("widget"), n \in {<<>>, <<1>>}}
      [] a = "create_issue" ->
           {[NoArgs EXCEPT !.repo = r, !.title = t, !.body = b, !.extra = x] :
               r \in Opt("widget"), t \in Opt("bug"),
               b \in {undefined, "text"}, x \in Extras}
      [] a = "create_repo" ->
           {[NoArgs EXCEPT !.name = n] : n \in Opt("widget")}
      [] a = "create_pull_request" ->
           {[NoArgs EXCEPT !.owner = o, !.repo = r, !.title = t, !.head = h,
                           !.base = b] :
               o \in {undefined, "acme"}, r \in {undefined, "widget"},
               t \in {"", "fix"}, h \in {undefined, "dev"},
               b \in {undefined, "release"}}
      [] a = "search_repos" ->
           {[NoArgs EXCEPT !.query = q, !.limit = n] :
               q \in Opt("my claw"), n \in Limits}

\* the languages an upstream repository may carry (null: none detected)
Languages == {null, "Go", "Rust"}

RECURSIVE SeqsUpTo(_, _)
SeqsUpTo(S, n) ==
    IF n = 0 THEN {<<>>}
    ELSE LET shorter == SeqsUpTo(S, n - 1)
         IN  shorter \cup {Append(s, x) : s \in {t \in shorter : Len(t) = n - 1}, x \in S}

\* an upstream repository list: the i-th repository is named i
RECURSIVE Repos(_)
Repos(langs) ==
    IF langs = <<>> THEN <<>>
    ELSE Append(Repos(SubSeq(langs, 1, Len(langs) - 1)),
                [name |-> Len(langs), language |-> langs[Len(langs)]])

RepoLists == {Repos(langs) : langs \in SeqsUpTo(Languages, MaxRepos)}

\* commit hashes, as sequences of characters: two of 40 characters
HexDigits == <<"0", "1", "2", "3", "4", "5", "6", "7", "8", "9",
               "a", "b", "c", "d", "e", "f">>
Sha(k) == [i \in 1..40 |-> HexDigits[((i * k) % 16) + 1]]
Shas == {Sha(3), Sha(7)}

\* the workflow runs an upstream response may list, each with its head_sha
RECURSIVE Runs(_)
Runs(shas) ==
    IF shas = <<>> THEN <<>>
    ELSE Append(Runs(SubSeq(shas, 1, Len(shas) - 1)),
                [name |-> Len(shas), head_sha |-> shas[Len(shas)]])

RunLists == {Runs(shas) : shas \in SeqsUpTo(Shas, MaxRuns)}

\* a parsed JSON body; the fields a handler reads
NoBody == [login |-> undefined, message |-> undefined, list |-> <<>>,
           items |-> FALSE, total_count |-> 0,
           has_workflow_runs |-> FALSE, workflow_runs |-> <<>>]

\* a settled fetch: rejected by the transport, or a response with a status
\* and a body that response.json() parses (parses) or throws on
NoResp == [kind |-> "none", status |-> 0, parses |-> FALSE, body |-> NoBody]
Rejected == [kind |-> "reject", status |-> 0, parses |-> FALSE, body |-> NoBody]
Resp(st, b) == [kind |-> "resp", status |-> st, parses |-> TRUE, body |-> b]
BadJson(st) == [kind |-> "resp", status |-> st, parses |-> FALSE, body |-> NoBody]

\* response.ok without its upper limit
ok_NoUpperLimit(r) == r.status >= 200

\* response.ok
ok(r) == r.status >= 200 /\ r.status <= 299

ErrorBodies == {[NoBody EXCEPT !.message = m] : m \in {undefined, "Not Found"}}

\* what the identity endpoint may answer
UserResponses ==
    {Rejected, BadJson(502)}
      \cup {Resp(200, [NoBody EXCEPT !.login = l]) : l \in {"alice", "bob"}}
      \cup {Resp(401, [NoBody EXCEPT !.message = "Bad credentials"])}

\* what the operation's endpoint may answer
OkBodies(a) ==
    CASE a = "list_repos" -> {[NoBody EXCEPT !.list = l] : l \in RepoLists}
      [] a = "search_repos" ->
           {NoBody} \cup
           {[NoBody EXCEPT !.items = TRUE, !.list = l, !.total_count = Len(l)] :
               l \in RepoLists}
      [] a = "check_ci_status" ->
           {NoBody} \cup
           {[NoBody EXCEPT !.has_workflow_runs = TRUE, !.workflow_runs = l] :
               l \in RunLists}
      [] OTHER -> {NoBody}

OpResponses(a) ==
    {Rejected, BadJson(200), BadJson(404)}
      \cup {Resp(404, b) : b \in ErrorBodies}
      \cup {Resp(200, b) : b \in OkBodies(a)}

----------------------------------------------------------------------------
(* Credential resolver *)

\* authHeaders with the configuration token tried first
authHeaders_ConfigFirst(ctx) ==
    LET headers == [Accept |-> "application/vnd.github.v3+json",
                    UserAgent |-> "OpenClaw-GitHub-Skill",
                    Authorization |-> undefined]
    IN  IF Truthy(ctx.token)
        THEN [headers EXCEPT !.Authorization = "token " \o ctx.token]
        ELSE IF Truthy(env.GITHUB_TOKEN)
             THEN [headers EXCEPT !.Authorization = "token " \o env.GITHUB_TOKEN]
             ELSE headers

\* authHeaders(context): the environment token wins and returns at once
authHeaders(ctx) ==
    LET headers == [Accept |-> "application/vnd.github.v3+json",
                    UserAgent |-> "OpenClaw-GitHub-Skill",
                    Authorization |-> undefined]
    IN  IF Truthy(env.GITHUB_TOKEN)
        THEN [headers EXCEPT !.Authorization = "token " \o env.GITHUB_TOKEN]
        ELSE IF Truthy(ctx.token)
             THEN [headers EXCEPT !.Authorization = "token " \o ctx.token]
             ELSE headers

\* a fetch(url, {method, headers: authHeaders(context)}); body: none yet
Request(method, url, ctx) ==
    [method |-> method, url |-> url, headers |-> authHeaders(ctx),
     body |-> NoPayload]

UserUrl == GITHUB_API \o "/user"

\* getUsername that never reads the cache
Tier_NoCache(ctx) ==
    IF Truthy(env.GITHUB_USERNAME) THEN 1
    ELSE IF Truthy(ctx.username) THEN 2
    ELSE 4

\* getUsername that reads the cache ahead of the configuration
Tier_CacheFirst(ctx) ==
    IF Truthy(env.GITHUB_USERNAME) THEN 1
    ELSE IF Truthy(cachedUser) THEN 3
    ELSE IF Truthy(ctx.username) THEN 2
    ELSE 4

\* getUsername(context), its branch: 1 environment, 2 configuration,
\* 3 the cached value, 4 the fetch of the identity endpoint
Tier(ctx) ==
    IF Truthy(env.GITHUB_USERNAME) THEN 1
    ELSE IF Truthy(ctx.username) THEN 2
    ELSE IF Truthy(cachedUser) THEN 3
    ELSE 4

\* the value getUsername returns on the branches that do not fetch
TierValue(ctx) ==
    CASE Tier(ctx) = 1 -> env.GITHUB_USERNAME
      [] Tier(ctx) = 2 -> ctx.username
      [] OTHER -> cachedUser

----------------------------------------------------------------------------
(* Action handlers: the code between two awaits *)

\* every handler awaiting getUsername first
UsesUsername_All(a) == TRUE

\* the handlers that begin with `await getUsername(context)`
UsesUsername(a) == a \notin {"get_repo", "check_ci_status"}

\* const { limit = d } = args
Default(l, d) == IF l = <<>> THEN d ELSE l[1]

\* createPullRequest: the owner the request targets
prOwner(args, username) ==
    IF impl = "ts" /\ ~Truthy(args.owner) THEN username ELSE args.owner

\* the handler's own check of its arguments: the message it throws, "" if none
Validate(a, args, username) ==
    CASE a = "get_recent_activity" /\ ~Truthy(args.repo) -> "Repository name required"
      [] a = "create_issue" /\ ~Truthy(args.title) -> "Issue title required"
      [] a = "create_repo" /\ ~Truthy(args.name) -> "Repository name required"
      [] a = "search_repos" /\ ~Truthy(args.query) -> "Search query required"
      [] a = "create_pull_request"
           /\ (~Truthy(prOwner(args, username)) \/ ~Truthy(args.repo)
                 \/ ~Truthy(args.title) \/ ~Truthy(args.head))
           -> "owner, repo, title, and head are required"
      [] OTHER -> ""

ValidationMessages == {"Repository name required", "Issue title required",
                       "Search query required",
                       "owner, repo, title, and head are required"}

\* the method of the operation's request
OpMethod(a) ==
    IF a \in {"create_issue", "create_repo", "create_pull_request"} THEN "POST" ELSE "GET"

\* the URL of the operation's request
OpUrl(a, args, username) ==
    CASE a = "list_repos" ->
           GITHUB_API \o "/users/" \o Str(username)
             \o "/repos?type=owner&sort=updated&direction=desc&per_page="
             \o ToString(Default(args.limit, DefaultLimit))
      [] a = "get_repo" ->
           GITHUB_API \o "/repos/" \o Str(args.owner) \o "/" \o Str(args.repo)
      [] a = "check_ci_status" ->
           GITHUB_API \o "/repos/" \o Str(args.owner) \o "/" \o Str(args.repo)
             \o "/actions/runs?per_page=" \o ToString(CIPageSize)
      [] a = "get_recent_activity" ->
           GITHUB_API \o "/repos/" \o Str(username) \o "/" \o Str(args.repo)
             \o "/commits?per_page=" \o ToString(Default(args.limit, DefaultActivityLimit))
      [] a = "create_issue" ->
           GITHUB_API \o "/repos/" \o Str(username) \o "/" \o Str(args.repo) \o "/issues"
      [] a = "create_repo" -> GITHUB_API \o "/user/repos"
      [] a = "search_repos" ->
           GITHUB_API \o "/search/repositories?q=" \o encodeURIComponent(args.query) \o "+user:"
             \o Str(username) \o "&sort=updated&per_page="
             \o ToString(Default(args.limit, DefaultLimit))
      [] a = "create_pull_request" ->
           GITHUB_API \o "/repos/" \o Str(prOwner(args, username)) \o "/"
             \o Str(args.repo) \o "/pulls"

\* body || '' and description || ''
OrEmpty(v) == IF Truthy(v) THEN v ELSE ""

\* const { base = 'main' } = args
baseOrMain(args) == IF args.base = undefined THEN "main" ELSE args.base

\* { ...object, ...extra }: the keys of extra replace those of object
Spread(object, extra) ==
    [k \in DOMAIN object |-> IF extra[k] # absent THEN extra[k] ELSE object[k]]

\* JSON.stringify: a key whose value is undefined is left out
stringify(object) ==
    [k \in DOMAIN object |-> IF object[k] = undefined THEN absent ELSE object[k]]

\* createIssue's body with args.extra spread ahead of title and body
createIssueBody_ExtraFirst(args) ==
    stringify([Spread(NoPayload, args.extra) EXCEPT
                  !.title = args.title, !.body = OrEmpty(args.body)])

\* createIssue: JSON.stringify({ title, body: body || '', ...args.extra })
createIssueBody(args) ==
    stringify(Spread([NoPayload EXCEPT !.title = args.title,
                                       !.body = OrEmpty(args.body)],
                     args.extra))

\* the body of the operation's request
OpBody(a, args) ==
    CASE a = "create_issue" -> createIssueBody(args)
      [] a = "create_repo" ->
           stringify([NoPayload EXCEPT !.name = args.name, !.description = "",
                                       !.private = "false", !.auto_init = "true"])
      [] a = "create_pull_request" ->
           stringify([NoPayload EXCEPT !.title = args.title, !.body = OrEmpty(args.body),
                                       !.head = args.head, !.base = baseOrMain(args)])
      [] OTHER -> NoPayload

\* what an invocation ends with
NoResult == [shape |-> "none", total |-> 0, repos |-> <<>>, repo |-> "",
             runs |-> <<>>]
NoOut == [kind |-> "none", errType |-> "", prefix |-> "", detail |-> "",
          result |-> NoResult]
Throw(errType, prefix, detail) ==
    [kind |-> "error", errType |-> errType, prefix |-> prefix, detail |-> detail,
     result |-> NoResult]
Returned(result) ==
    [kind |-> "ok", errType |-> "", prefix |-> "", detail |-> "", result |-> result]

\* the message of a thrown error
Message(out) == out.prefix \o out.detail

\* fetch rejected: the transport's error passes through the handler
NetworkError == Throw("TypeError", "fetch failed", "")
\* response.json() on a body that is not JSON
SyntaxError == Throw("SyntaxError", "Unexpected token", "")

\* the invocation record
Idle == [pc |-> "idle", act |-> "none", args |-> NoArgs,
         ctx |-> [token |-> undefined, username |-> undefined],
         cacheAtCall |-> null, tier |-> 0, uname |-> unset,
         reqs |-> <<>>, uresp |-> NoResp, resp |-> NoResp, out |-> NoOut]

\* after getUsername: the arguments' check, then the operation's fetch
Proceed(rec, username) ==
    LET msg == Validate(rec.act, rec.args, username)
    IN  IF msg # ""
        THEN [rec EXCEPT !.pc = "done", !.out = Throw("Error", msg, "")]
        ELSE [rec EXCEPT !.pc = "await_op",
                         !.reqs = Append(@, [Request(OpMethod(rec.act),
                                                     OpUrl(rec.act, rec.args, username),
                                                     rec.ctx)
                                                EXCEPT !.body = OpBody(rec.act, rec.args)])]

\* args.limit || 30 (JavaScript), limit = 30 by default (TypeScript)
sliceEnd(args) ==
    IF impl = "js"
    THEN IF args.limit = <<>> \/ args.limit[1] = 0 THEN DefaultLimit ELSE args.limit[1]
    ELSE Default(args.limit, DefaultLimit)

\* listRepos with the truncation ahead of the language filter
listReposResult_LimitFirst(args, repos) ==
    LET limited == slice0(repos, sliceEnd(args))
        filtered == IF Truthy(args.language)
                    THEN filterByLanguage(limited, args.language)
                    ELSE limited
    IN  [NoResult EXCEPT !.shape = "ListReposResult", !.total = Len(filtered),
                         !.repos = filtered]

\* listRepos: the language filter, then the truncation
listReposResult(args, repos) ==
    LET filtered == IF Truthy(args.language)
                    THEN filterByLanguage(repos, args.language)
                    ELSE repos
        limited == slice0(filtered, sliceEnd(args))
    IN  [NoResult EXCEPT !.shape = "ListReposResult", !.total = Len(limited),
                         !.repos = limited]

\* searchRepos: data.items mapped, or [] when items is absent
searchReposResult(body) ==
    [NoResult EXCEPT !.shape = "SearchReposResult", !.total = body.total_count,
                     !.repos = IF body.items THEN body.list ELSE <<>>]

\* checkCIStatus with the whole hash as the commit
commitOf_Whole(run) == run.head_sha

\* checkCIStatus: commit: run.head_sha?.substring(0, 7)
commitOf(run) == substring0(run.head_sha, ShaLen)

\* checkCIStatus: data.workflow_runs mapped, or [] when there are none
checkCIRuns(body) ==
    IF body.has_workflow_runs
    THEN [i \in DOMAIN body.workflow_runs |->
            [name |-> body.workflow_runs[i].name,
             commit |-> commitOf(body.workflow_runs[i])]]
    ELSE <<>>

\* the result a handler builds from a parsed success body
Shape(rec, body) ==
    CASE rec.act = "list_repos" -> listReposResult(rec.args, body.list)
      [] rec.act = "search_repos" -> searchReposResult(body)
      [] rec.act = "get_repo" -> [NoResult EXCEPT !.shape = "Repository"]
      [] rec.act = "check_ci_status" ->
           [NoResult EXCEPT !.shape = "CheckCIResult",
                            !.repo = Str(rec.args.owner) \o "/" \o Str(rec.args.repo),
                            !.runs = checkCIRuns(body)]
      [] rec.act = "get_recent_activity" ->
           [NoResult EXCEPT !.shape = "RecentActivityResult",
                            !.repo = Str(rec.uname) \o "/" \o Str(rec.args.repo)]
      [] rec.act = "create_issue" -> [NoResult EXCEPT !.shape = "Issue"]
      [] rec.act = "create_repo" -> [NoResult EXCEPT !.shape = "Repository"]
      [] rec.act = "create_pull_request" -> [NoResult EXCEPT !.shape = "PullRequest"]

\* `${error.message || response.status}` after `await response.json()`
ParsedError(prefix, resp) ==
    IF ~resp.parses THEN SyntaxError
    ELSE Throw("Error", prefix,
               IF Truthy(resp.body.message) THEN resp.body.message
               ELSE ToString(resp.status))

\* `${response.status}`: the body is not read
StatusError(prefix, resp) == Throw("Error", prefix, ToString(resp.status))

\* what a handler throws when !response.ok
OpError(rec, resp) ==
    CASE rec.act = "list_repos" -> StatusError("GitHub API error: ", resp)
      [] rec.act = "get_repo" ->
           Throw("Error", "Repo not found: ",
                 Str(rec.args.owner) \o "/" \o Str(rec.args.repo))
      [] rec.act = "check_ci_status" -> StatusError("Failed to get CI status: ", resp)
      [] rec.act = "get_recent_activity" -> StatusError("Failed to get activity: ", resp)
      [] rec.act = "create_issue" ->
           IF impl = "js" THEN StatusError("Failed to create issue: ", resp)
           ELSE ParsedError("Failed to create issue: ", resp)
      [] rec.act = "create_repo" -> ParsedError("Failed to create repo: ", resp)
      [] rec.act = "search_repos" -> StatusError("Search failed: ", resp)
      [] rec.act = "create_pull_request" -> ParsedError("Failed to create PR: ", resp)

\* the handler from the settled fetch of its operation to its return or throw
OpOutcome(rec, resp) ==
    IF resp.kind = "reject" THEN NetworkError
    ELSE IF ~ok(resp) THEN OpError(rec, resp)
    ELSE IF ~resp.parses THEN SyntaxError
    ELSE Returned(Shape(rec, resp.body))

----------------------------------------------------------------------------
(* The state machine *)

Init ==
    /\ impl \in Impls
    /\ env \in Envs
    /\ cachedUser = null
    /\ inv = [p \in Procs |-> Idle]
    /\ calls = 0
    /\ lookups = 0
    /\ firstLookup = NoResp

\* getUsername that stores the username it returns without a fetch
cacheOnReturn_Stored(ctx) == TierValue(ctx)

\* the cache when getUsername returns without a fetch: as it was
cacheOnReturn(ctx) == cachedUser

\* handler a runs from its entry to its first fetch, or to its throw
Begin(p, a, args, ctx) ==
    LET rec == [Idle EXCEPT !.act = a, !.args = args, !.ctx = ctx,
                            !.cacheAtCall = cachedUser]
    IN  /\ calls' = calls + 1
        /\ IF ~UsesUsername(a)
           THEN /\ inv' = [inv EXCEPT ![p] = Proceed(rec, unset)]
                /\ lookups' = lookups
                /\ cachedUser' = cachedUser
           ELSE IF Tier(ctx) < 4
           THEN /\ inv' = [inv EXCEPT ![p] =
                             Proceed([rec EXCEPT !.tier = Tier(ctx),
                                                 !.uname = TierValue(ctx)],
                                     TierValue(ctx))]
                /\ lookups' = lookups
                /\ cachedUser' = cacheOnReturn(ctx)
           ELSE /\ inv' = [inv EXCEPT ![p] =
                             [rec EXCEPT !.tier = 4, !.pc = "await_user",
                                         !.reqs = <<Request("GET", UserUrl, ctx)>>]]
                /\ lookups' = lookups + 1
                /\ cachedUser' = cachedUser
        /\ UNCHANGED <<impl, env, firstLookup>>

\* the dispatcher invokes handler a while no other invocation is under way
Start(p, a) ==
    /\ \A q \in Procs : inv[q].pc = "idle"
    /\ calls < MaxCalls
    /\ \E args \in ArgsOf(a), ctx \in Contexts : Begin(p, a, args, ctx)

listRepos(p) == Start(p, "list_repos")
getRepo(p) == Start(p, "get_repo")
checkCIStatus(p) == Start(p, "check_ci_status")
getRecentActivity(p) == Start(p, "get_recent_activity")
createIssue(p) == Start(p, "create_issue")
createRepo(p) == Start(p, "create_repo")
searchRepos(p) == Start(p, "search_repos")
createPullRequest(p) == Start(p, "create_pull_request")

\* getUsername resumes: the identity fetch settled, the body is parsed,
\* data.login is cached and returned, and the handler runs on to its fetch
UserResponse(p) ==
    /\ inv[p].pc = "await_user"
    /\ \E r \in UserResponses :
         /\ firstLookup' = IF firstLookup = NoResp THEN r ELSE firstLookup
         /\ IF r.kind = "reject"
            THEN /\ inv' = [inv EXCEPT ![p] = [@ EXCEPT !.pc = "done", !.uresp = r,
                                                        !.out = NetworkError]]
                 /\ cachedUser' = cachedUser
            ELSE IF ~r.parses
            THEN /\ inv' = [inv EXCEPT ![p] = [@ EXCEPT !.pc = "done", !.uresp = r,
                                                        !.out = SyntaxError]]
                 /\ cachedUser' = cachedUser
            ELSE /\ cachedUser' = r.body.login
                 /\ inv' = [inv EXCEPT ![p] =
                              Proceed([@ EXCEPT !.uresp = r, !.uname = r.body.login],
                                      r.body.login)]
    /\ UNCHANGED <<impl, env, calls, lookups>>

\* the handler resumes: the fetch of its operation settled
OpResponse(p) ==
    /\ inv[p].pc = "await_op"
    /\ \E r \in OpResponses(inv[p].act) :
         inv' = [inv EXCEPT ![p] = [@ EXCEPT !.pc = "done", !.resp = r,
                                             !.out = OpOutcome(inv[p], r)]]
    /\ UNCHANGED <<impl, env, cachedUser, calls, lookups, firstLookup>>

\* the caller takes the outcome; the invocation's values are discarded
Return(p) ==
    /\ inv[p].pc = "done"
    /\ inv' = [inv EXCEPT ![p] = Idle]
    /\ UNCHANGED <<impl, env, cachedUser, calls, lookups, firstLookup>>

Next ==
    \E p \in Procs :
       \/ listRepos(p)
       \/ getRepo(p)
       \/ checkCIStatus(p)
       \/ getRecentActivity(p)
       \/ createIssue(p)
       \/ createRepo(p)
       \/ searchRepos(p)
       \/ createPullRequest(p)
       \/ UserResponse(p)
       \/ OpResponse(p)
       \/ Return(p)

Spec == Init /\ [][Next]_vars

----------------------------------------------------------------------------
(* Overlapping invocations: a handler is suspended at each await, and the   *)
(* dispatcher may invoke another handler before the first one resumes.      *)

ConcProcs == 1..NumConcProcs

\* the arguments drawn for overlapping invocations: one complete set each
ConcArgsOf(a) ==
    {[NoArgs EXCEPT !.owner = IF a \in {"get_repo", "check_ci_status", "create_pull_request"}
                              THEN "acme" ELSE undefined,
                    !.repo = IF a \in {"list_repos", "create_repo", "search_repos"}
                             THEN undefined ELSE "widget",
                    !.title = IF a = "create_issue" THEN "bug"
                              ELSE IF a = "create_pull_request" THEN "fix" ELSE undefined,
                    !.head = IF a = "create_pull_request" THEN "dev" ELSE undefined,
                    !.name = IF a = "create_repo" THEN "widget" ELSE undefined,
                    !.query = IF a = "search_repos" THEN "my claw" ELSE undefined]}

\* two contexts that differ in their token
ConcContexts == [token : {"cfgtok", "othertok"}, username : {undefined}]

InitConc ==
    /\ impl \in Impls
    /\ env = [GITHUB_TOKEN |-> undefined, GITHUB_USERNAME |-> undefined]
    /\ cachedUser = null
    /\ inv = [p \in ConcProcs |-> Idle]
    /\ calls = 0
    /\ lookups = 0
    /\ firstLookup = NoResp

\* the dispatcher invokes handler a, whatever the other invocations are at
StartConc(p, a) ==
    /\ inv[p].pc = "idle"
    /\ calls < MaxConcCalls
    /\ \E args \in ConcArgsOf(a), ctx \in ConcContexts : Begin(p, a, args, ctx)

NextConc ==
    \E p \in ConcProcs :
       \/ \E a \in Actions : StartConc(p, a)
       \/ UserResponse(p)
       \/ OpResponse(p)
       \/ Return(p)

SpecConc == InitConc /\ [][NextConc]_vars

----------------------------------------------------------------------------
(* Vocabulary of the properties *)

\* the parameter schema's required fields
Required(a) ==
    CASE a \in {"get_repo", "check_ci_status"} -> {"owner", "repo"}
      [] a = "get_recent_activity" -> {"repo"}
      [] a = "create_issue" -> {"repo", "title"}
      [] a = "create_repo" -> {"name"}
      [] a = "create_pull_request" -> {"owner", "repo", "title", "head"}
      [] a = "search_repos" -> {"query"}
      [] OTHER -> {}

Absent(v) == v = undefined \/ v = ""

\* the invocation ended in the error a handler throws for a missing argument
IsValidationError(out) ==
    out.kind = "error" /\ out.errType = "Error" /\ Message(out) \in ValidationMessages

\* the requests an invocation sent to the identity endpoint
IdentityRequests(rec) == {i \in DOMAIN rec.reqs : rec.reqs[i].url = UserUrl}

\* the invocation is past getUsername's return
Resolved(rec) == rec.uname # unset

\* a response that is not a success: the status is outside 200..299
Failed(r) == r.kind = "resp" /\ (r.status < 200 \/ r.status > 299)

----------------------------------------------------------------------------
(* C1 *)

\* C1: an invocation of create_issue whose title is missing or empty sends
\* no request at all, the identity lookup included, and ends in a
\* validation error.
C1_TitleCheckedBeforeNetwork ==
    \A p \in Procs :
       inv[p].act = "create_issue" /\ Absent(inv[p].args.title)
          => /\ inv[p].reqs = <<>>
             /\ inv[p].pc = "done" => IsValidationError(inv[p].out)

(* C2 *)

\* C2: an invocation in which a field the schema requires (the owner of
\* create_pull_request aside) is absent or empty sends no request and ends
\* in a validation error.
C2_RequiredCheckedBeforeNetwork ==
    \A p \in Procs :
       (\E f \in Required(inv[p].act) :
           /\ ~(inv[p].act = "create_pull_request" /\ f = "owner")
           /\ Absent(inv[p].args[f]))
          => /\ inv[p].reqs = <<>>
             /\ inv[p].pc = "done" => IsValidationError(inv[p].out)

(* C3 *)

\* the calls of getUsername that neither the environment nor the
\* configuration serves all return the login of the first lookup
ReturnsOfFirstLookup ==
    \A p \in Procs :
       inv[p].tier \in {3, 4} /\ Resolved(inv[p])
          => inv[p].uname = firstLookup.body.login

\* C3 as stated: whatever the first lookup received, at most one lookup is
\* made in the process lifetime and every call returns what the first did.
C3_AtMostOneLookupEver ==
    lookups <= 1 /\ (firstLookup.kind = "resp" /\ firstLookup.parses => ReturnsOfFirstLookup)

\* C3 (amended): when the first lookup's response carries a non-empty login,
\* at most one lookup is made in the process lifetime and every call that
\* neither the environment nor the configuration serves returns that login.
C3_OneLookupOnceLoginCached ==
    Truthy(firstLookup.body.login) => lookups <= 1 /\ ReturnsOfFirstLookup

\* a later call is served from the cache, after the one lookup
C3_Witness ==
    \E p \in Procs :
       /\ calls >= 2 /\ lookups = 1
       /\ inv[p].tier = 3 /\ inv[p].pc = "await_op"
       /\ Truthy(firstLookup.body.login)
       /\ inv[p].uname = firstLookup.body.login

(* C4 *)

\* C4: every request carries Accept and User-Agent; its Authorization is the
\* environment token alone when there is one, else the configuration token
\* when there is one, else absent (and the request is sent all the same);
\* getUsername returns the environment username when there is one, whatever
\* the configuration says.
C4_EnvironmentWins ==
    \A p \in Procs :
       /\ \A i \in DOMAIN inv[p].reqs :
             LET h == inv[p].reqs[i].headers
             IN  /\ h.Accept = "application/vnd.github.v3+json"
                 /\ h.UserAgent = "OpenClaw-GitHub-Skill"
                 /\ h.Authorization =
                       IF ~Absent(env.GITHUB_TOKEN) THEN "token " \o env.GITHUB_TOKEN
                       ELSE IF ~Absent(inv[p].ctx.token) THEN "token " \o inv[p].ctx.token
                       ELSE undefined
       /\ Resolved(inv[p]) /\ ~Absent(env.GITHUB_USERNAME)
             => inv[p].uname = env.GITHUB_USERNAME
       /\ Resolved(inv[p]) /\ Absent(env.GITHUB_USERNAME) /\ ~Absent(inv[p].ctx.username)
             => inv[p].uname = inv[p].ctx.username

\* both sources supply a token and a username, and a request went out
C4_Witness ==
    \E p \in Procs :
       /\ ~Absent(env.GITHUB_TOKEN) /\ ~Absent(inv[p].ctx.token)
       /\ ~Absent(env.GITHUB_USERNAME) /\ ~Absent(inv[p].ctx.username)
       /\ inv[p].reqs # <<>>
       /\ inv[p].reqs[1].headers.Authorization = "token envtok"
       /\ inv[p].uname = "envuser"

(* C5 *)

\* C5: getUsername returns the environment username if there is one, else
\* the configured one, else the value cached when it was called, each
\* without a lookup; only when all three miss does it send one request to
\* the identity endpoint, with the context's headers, and the login it
\* returns is the one received and the one cached.
C5_FirstMatchWins ==
    \A p \in Procs :
       LET rec == inv[p]
           e == env.GITHUB_USERNAME
           c == rec.ctx.username
           k == rec.cacheAtCall
       IN  UsesUsername(rec.act) /\ rec.pc # "idle" =>
             IF Truthy(e) THEN rec.uname = e /\ IdentityRequests(rec) = {}
             ELSE IF Truthy(c) THEN rec.uname = c /\ IdentityRequests(rec) = {}
             ELSE IF Truthy(k) THEN rec.uname = k /\ IdentityRequests(rec) = {}
             ELSE /\ IdentityRequests(rec) = {1}
                  /\ Resolved(rec) => /\ rec.uname = rec.uresp.body.login
                                      /\ cachedUser = rec.uname

\* a configured username is returned although the cache holds another value
C5_Witness ==
    \E p \in Procs :
       /\ Truthy(inv[p].cacheAtCall) /\ inv[p].uname = "cfguser"
       /\ inv[p].cacheAtCall # inv[p].uname
       /\ inv[p].pc = "await_op"

(* C6 *)

\* C6: list_repos and search_repos never return more repositories than the
\* requested limit, 30 when the limit is omitted.
C6_ReposWithinLimit ==
    \A p \in Procs :
       /\ inv[p].act \in {"list_repos", "search_repos"}
       /\ inv[p].pc = "done" /\ inv[p].out.kind = "ok"
       => Len(inv[p].out.result.repos) <= Default(inv[p].args.limit, DefaultLimit)

(* C7 *)

\* two language names that differ in the case of their letters at most
SameIgnoringCase(a, b) ==
    \E class \in {{"go", "Go", "GO"}, {"rust", "Rust"}} : a \in class /\ b \in class

\* the upstream repositories whose language is the requested one, in order
Matching(repos, language) ==
    SelectSeq(repos, LAMBDA r : r.language # null /\ SameIgnoringCase(r.language, language))

IsPrefix(s, t) == Len(s) <= Len(t) /\ s = SubSeq(t, 1, Len(s))

\* C7: list_repos with a language filter returns the leading part of the
\* upstream repositories that match the filter (so none with another or
\* with no language); it is cut short only by the limit, which applies to
\* the matching repositories and not to the upstream list; total is the
\* number returned.
C7_LanguageFilterThenLimit ==
    \A p \in Procs :
       LET rec == inv[p]
           got == rec.out.result.repos
           matching == Matching(rec.resp.body.list, rec.args.language)
       IN  /\ rec.act = "list_repos" /\ Truthy(rec.args.language)
           /\ rec.pc = "done" /\ rec.out.kind = "ok"
           => /\ \A i \in DOMAIN got :
                    /\ got[i].language # null
                    /\ SameIgnoringCase(got[i].language, rec.args.language)
              /\ IsPrefix(got, matching)
              /\ got # matching => Len(got) = Default(rec.args.limit, DefaultLimit)
              /\ rec.out.result.total = Len(got)

\* the filter dropped a repository ahead of one that was returned
C7_Witness ==
    \E p \in Procs :
       /\ inv[p].act = "list_repos" /\ inv[p].args.language = "GO"
       /\ inv[p].pc = "done" /\ inv[p].out.kind = "ok"
       /\ Len(inv[p].resp.body.list) = 2
       /\ inv[p].resp.body.list[1].language \in {null, "Rust"}
       /\ inv[p].out.result.repos = <<inv[p].resp.body.list[2]>>
       /\ inv[p].out.result.total = 1

(* C8 *)

\* C8: when the identity lookup's response is not a success or carries no
\* login, the invocation ends in an error with no username returned, the
\* cache still empty and no request but the lookup sent.
C8_FailedLookupFails ==
    \A p \in Procs :
       /\ inv[p].tier = 4 /\ inv[p].uresp.kind = "resp"
       /\ (Failed(inv[p].uresp) \/ ~Truthy(inv[p].uresp.body.login))
       => /\ inv[p].pc = "done" /\ inv[p].out.kind = "error"
          /\ ~Resolved(inv[p])
          /\ ~Truthy(cachedUser)
          /\ Len(inv[p].reqs) = 1

(* C9 *)

\* C9: an invocation whose operation request got a non-success status ends
\* in an error and carries no result; for get_repo on a 404 the error's
\* message names the owner/repo pair.
C9_NoResultOnFailure ==
    \A p \in Procs :
       inv[p].pc = "done" /\ Failed(inv[p].resp)
       => /\ inv[p].out.kind = "error"
          /\ inv[p].out.result = NoResult
          /\ inv[p].act = "get_repo" /\ inv[p].resp.status = 404
                => Message(inv[p].out) =
                      "Repo not found: " \o Str(inv[p].args.owner) \o "/"
                         \o Str(inv[p].args.repo)

\* get_repo for acme/widget got a 404
C9_Witness ==
    \E p \in Procs :
       /\ inv[p].act = "get_repo" /\ inv[p].pc = "done"
       /\ inv[p].resp.kind = "resp" /\ inv[p].resp.status = 404
       /\ Message(inv[p].out) = "Repo not found: acme/widget"

(* C10 *)

\* C10: on a non-success status the error raised is the handler's own, and
\* its message carries the message of the JSON error body when the body
\* parses and has one, and the numeric status otherwise.
C10_UpstreamMessageOrStatus ==
    \A p \in Procs :
       inv[p].pc = "done" /\ Failed(inv[p].resp)
       => /\ inv[p].out.kind = "error" /\ inv[p].out.errType = "Error"
          /\ inv[p].out.detail =
                IF inv[p].resp.parses /\ Truthy(inv[p].resp.body.message)
                THEN inv[p].resp.body.message
                ELSE ToString(inv[p].resp.status)

(* C11 *)

\* the request an invocation sent to its operation's endpoint, if it sent one
OpRequests(rec) == {i \in DOMAIN rec.reqs : rec.reqs[i].url # UserUrl}

\* C11: create_pull_request, once the acting username is known, targets
\* /repos/<owner>/<repo>/pulls with the explicit owner when there is one and
\* with the acting username when the owner is omitted, and does not fail
\* for the missing owner; the base it sends is "main" unless one is given;
\* with repo, title or head missing it sends no such request and ends in a
\* validation error.
C11_OwnerFallsBackToActingUser ==
    \A p \in Procs :
       LET rec == inv[p]
           a == rec.args
           owner == IF Absent(a.owner) THEN rec.uname ELSE a.owner
       IN  rec.act = "create_pull_request" /\ Resolved(rec) /\ Truthy(rec.uname) =>
              IF Absent(a.repo) \/ Absent(a.title) \/ Absent(a.head)
              THEN /\ OpRequests(rec) = {}
                   /\ rec.pc = "done" /\ IsValidationError(rec.out)
              ELSE /\ OpRequests(rec) = {Len(rec.reqs)}
                   /\ rec.reqs[Len(rec.reqs)].url =
                         GITHUB_API \o "/repos/" \o owner \o "/" \o a.repo \o "/pulls"
                   /\ rec.reqs[Len(rec.reqs)].body.base =
                         IF a.base = undefined THEN "main" ELSE a.base

(* C18 *)

\* C18: the body create_issue posts has, for each key of extra, extra's
\* value, also for title and body; elsewhere it has the title of the
\* arguments, their body or "" without one, and no other key.
C18_ExtraOverlaysIssueBody ==
    \A p \in Procs :
       LET rec == inv[p]
           a == rec.args
       IN  rec.act = "create_issue" =>
              \A i \in OpRequests(rec) :
                 LET sent == rec.reqs[i].body
                 IN  /\ rec.reqs[i].method = "POST"
                     /\ \A k \in DOMAIN sent :
                           sent[k] =
                              IF a.extra[k] # absent THEN a.extra[k]
                              ELSE IF k = "title" THEN a.title
                              ELSE IF k = "body"
                                   THEN (IF Absent(a.body) THEN "" ELSE a.body)
                              ELSE absent

\* an extra with its own title went out in place of the validated title
C18_Witness ==
    \E p \in Procs :
       /\ inv[p].act = "create_issue" /\ inv[p].pc = "await_op"
       /\ inv[p].args.title = "bug" /\ inv[p].args.body = "text"
       /\ inv[p].args.extra.title = "other"
       /\ inv[p].reqs[Len(inv[p].reqs)].body.title = "other"
       /\ inv[p].reqs[Len(inv[p].reqs)].body.body = "over"
       /\ inv[p].reqs[Len(inv[p].reqs)].body.labels = "bug"

(* C12 *)

\* C12: check_ci_status asks for 5 runs per page; its result names the
\* repository "<owner>/<repo>" and lists, for each upstream run in upstream
\* order, the first 7 characters of the run's hash as its commit; a response
\* without workflow_runs gives a result with no runs, not an error.
C12_FiveRunsSevenCharacters ==
    \A p \in Procs :
       LET rec == inv[p]
           a == rec.args
           up == rec.resp.body.workflow_runs
           runs == rec.out.result.runs
       IN  rec.act = "check_ci_status" =>
             /\ \A i \in OpRequests(rec) :
                   rec.reqs[i].url =
                      GITHUB_API \o "/repos/" \o Str(a.owner) \o "/" \o Str(a.repo)
                         \o "/actions/runs?per_page=5"
             /\ rec.pc = "done" /\ rec.resp.kind = "resp" /\ rec.resp.status = 200
                  /\ rec.resp.parses
                => /\ rec.out.kind = "ok"
                   /\ ~Absent(a.owner) /\ ~Absent(a.repo)
                        => rec.out.result.repo = a.owner \o "/" \o a.repo
                   /\ Len(runs) = Len(up)
                   /\ \A i \in DOMAIN up :
                         /\ runs[i].name = up[i].name
                         /\ Len(runs[i].commit) = Min(7, Len(up[i].head_sha))
                         /\ \A j \in DOMAIN runs[i].commit :
                               runs[i].commit[j] = up[i].head_sha[j]
                   /\ ~rec.resp.body.has_workflow_runs => runs = <<>>

\* acme/widget: two runs with 40-character hashes, cut to 7 characters each
C12_Witness ==
    \E p \in Procs :
       /\ inv[p].act = "check_ci_status" /\ inv[p].pc = "done"
       /\ inv[p].out.kind = "ok" /\ inv[p].out.result.repo = "acme/widget"
       /\ Len(inv[p].resp.body.workflow_runs) = 2
       /\ \A i \in 1..2 :
             /\ Len(inv[p].resp.body.workflow_runs[i].head_sha) = 40
             /\ Len(inv[p].out.result.runs[i].commit) = 7
       /\ inv[p].out.result.runs[1].commit # inv[p].out.result.runs[2].commit

(* C14 *)

\* the operations keyed by an explicit owner/repo pair
ExplicitKeyed == {"get_repo", "check_ci_status"}

\* C14: an invocation of get_repo or check_ci_status never enters
\* getUsername: it sends no request to the identity endpoint, no username is
\* resolved for it and the cache is as it was when the invocation began;
\* an invocation of any of the six other actions enters getUsername, which
\* returns at one of its four places or is awaiting its lookup.
C14_ExplicitKeyedSkipUsername ==
    \A p \in Procs :
       inv[p].pc # "idle" =>
          IF inv[p].act \in ExplicitKeyed
          THEN /\ inv[p].tier = 0
               /\ ~Resolved(inv[p])
               /\ IdentityRequests(inv[p]) = {}
               /\ cachedUser = inv[p].cacheAtCall
          ELSE /\ inv[p].tier \in 1..4
               /\ inv[p].tier = 4 => IdentityRequests(inv[p]) = {1}

\* get_repo has returned its result while nothing names the acting user:
\* no environment or configuration username, an empty cache, no lookup
C14_Witness ==
    \E p \in Procs :
       /\ inv[p].act = "get_repo" /\ inv[p].pc = "done" /\ inv[p].out.kind = "ok"
       /\ ~Truthy(env.GITHUB_USERNAME) /\ ~Truthy(inv[p].ctx.username)
       /\ cachedUser = null /\ lookups = 0
       /\ Len(inv[p].reqs) = 1

(* C15 *)

\* the request did not succeed: the fetch rejected or the status is not 2xx
Unsuccessful(r) == r.kind = "reject" \/ Failed(r)

\* C15: an invocation sends at most one request to its operation's
\* endpoint; once the identity lookup did not succeed the invocation has
\* ended in an error and the lookup is the only request it sent; once the
\* operation's request did not succeed the invocation has ended in an error.
C15_NoRetryFailureEnds ==
    \A p \in Procs :
       /\ Cardinality(OpRequests(inv[p])) <= 1
       /\ Unsuccessful(inv[p].uresp) =>
             /\ inv[p].pc = "done" /\ inv[p].out.kind = "error"
             /\ Len(inv[p].reqs) = 1
       /\ Unsuccessful(inv[p].resp) =>
             /\ inv[p].pc = "done" /\ inv[p].out.kind = "error"

(* C16 *)

\* C16: while an invocation that awaits getUsername has a username in the
\* environment or in its configuration, getUsername returned that username
\* at its first or second return, no request went to the identity endpoint
\* and the cache is as it was when the invocation began; the cache stays
\* empty as long as no lookup was sent; and an invocation with no such
\* username and an empty cache sent the lookup.
C16_SuppliedUsernameNotCached ==
    /\ lookups = 0 => cachedUser = null
    /\ \A p \in Procs :
          inv[p].pc # "idle" /\ UsesUsername(inv[p].act) =>
             IF Truthy(env.GITHUB_USERNAME) \/ Truthy(inv[p].ctx.username)
             THEN /\ inv[p].tier \in {1, 2}
                  /\ inv[p].uname = IF Truthy(env.GITHUB_USERNAME)
                                     THEN env.GITHUB_USERNAME
                                     ELSE inv[p].ctx.username
                  /\ IdentityRequests(inv[p]) = {}
                  /\ cachedUser = inv[p].cacheAtCall
             ELSE ~Truthy(inv[p].cacheAtCall) =>
                     /\ inv[p].tier = 4
                     /\ IdentityRequests(inv[p]) = {1}

\* the second invocation sent the lookup: the cache was still empty, so
\* the invocation before it neither sent one nor stored a username
C16_Witness ==
    \E p \in Procs :
       /\ calls = 2 /\ lookups = 1
       /\ inv[p].pc = "await_user" /\ inv[p].tier = 4
       /\ inv[p].cacheAtCall = null /\ cachedUser = null
       /\ ~Truthy(env.GITHUB_USERNAME)

(* C13 *)

\* the invocation sent the identity lookup while the cache had never been
\* written, and the lookup was answered with a success carrying a login
LookedUp(rec) ==
    /\ rec.tier = 4 /\ rec.cacheAtCall = null
    /\ Resolved(rec) /\ ok(rec.uresp) /\ Truthy(rec.uresp.body.login)

\* C13: when two invocations whose contexts carry different tokens both
\* entered getUsername before the cache was ever written and both lookups
\* were answered, the two callers received the same username and the cache
\* holds it.
C13_ConcurrentLookupsAgree ==
    \A p \in DOMAIN inv : \A q \in DOMAIN inv :
       /\ p # q /\ LookedUp(inv[p]) /\ LookedUp(inv[q])
       /\ inv[p].ctx.token # inv[q].ctx.token
       => /\ inv[p].uname = inv[q].uname
          /\ cachedUser = inv[p].uname

(* C17 *)

\* C17: once the cache holds a non-empty value no step changes or clears
\* it, and an invocation that entered getUsername with a non-empty cache
\* and no environment or configuration username received the cached value
\* and sent no request to the identity endpoint, whatever its token.
C17_CacheWrittenOnce ==
    /\ [][Truthy(cachedUser) => cachedUser' = cachedUser]_vars
    /\ [](\A p \in DOMAIN inv :
             /\ inv[p].pc # "idle" /\ UsesUsername(inv[p].act)
             /\ Truthy(inv[p].cacheAtCall)
             /\ ~Truthy(env.GITHUB_USERNAME) /\ ~Truthy(inv[p].ctx.username)
             => /\ inv[p].tier = 3
                /\ inv[p].uname = inv[p].cacheAtCall
                /\ IdentityRequests(inv[p]) = {})

====
